---------------------------- MODULE Spec2Model ----------------------------
(***************************************************************************)
(* Model of interface_R0.py: the statics solver resolver_estrutura, the    *)
(* equation transcript built by plot_estrutura_e_equacoes, and the         *)
(* Streamlit main flow that calls both.                                    *)
(*                                                                         *)
(* Numbers.  Every input is a decimal with two places and is held as an    *)
(* integer count of hundredths (1.0 kN is 100).  Intermediate values are   *)
(* exact rationals [n, d] in lowest terms; round(v, 2) yields an integer   *)
(* count of hundredths again.  Binary floating point enters in one place:  *)
(* a value exactly half way between two hundredths is held by a double     *)
(* that lies on either side of the tie, so round(v, 2) and the .2f format  *)
(* may give either neighbour there.  Differences in the 16th digit are     *)
(* otherwise outside the model.                                            *)
(*                                                                         *)
(* The source file holds an unresolved merge: the regions between the      *)
(* conflict markers exist in a HEAD and an incoming variant, the text      *)
(* outside the markers is common to both.  The solver is modelled from the *)
(* incoming variant (the one whose names the common return statement       *)
(* uses); the main flow is modelled for both variants, chosen by the       *)
(* variable side.                                                          *)
(***************************************************************************)
EXTENDS Integers, Sequences, FiniteSets

VARIABLES
    \* one call of resolver_estrutura
    pc,             \* "call", "returned" or "raised"
    args,           \* the arguments, in hundredths
    frame,          \* the function's locals (unrounded) when it ended
    ret,            \* what the call produced: a returned tuple or a raised exception
    \* one session of the Streamlit script
    side,           \* the variant of the conflicting regions: "HEAD" or "incoming"
    app_pc,         \* "main", "summary", "done", "failed", or "off"
    widgets,        \* the values of the number_input widgets, in hundredths
    error_shown,    \* st.error was called in this run
    calls,          \* the invocations of resolver_estrutura in this run
    solved,         \* the tuple plot_estrutura_e_equacoes got from the solver
    equations,      \* the values formatted into the equation transcript
    metrics,        \* the values shown by the result summary
    failure         \* the exception that ended this run, or "none"

vars == <<pc, args, frame, ret, side, app_pc, widgets, error_shown, calls,
          solved, equations, metrics, failure>>
solver_vars == <<pc, args, frame, ret>>
app_vars == <<side, app_pc, widgets, error_shown, calls, solved, equations,
              metrics, failure>>

\* ------------------------------------------------------------- bounds
\* Forces typed by the user range over -MaxForce..MaxForce hundredths.
MaxForce == 3
\* Lengths typed by the user range over -MaxLenSteps..MaxLenSteps widget steps.
MaxLenSteps == 3

\* ------------------------------------------------- program constants
\* value= of the number_input widgets, in hundredths.
Default_Ha == 100
Default_Hd == 300
Default_Pbc == -200
Default_L_bc == 300
Default_h_cd == 100
\* step=0.1 of the length widgets, in hundredths.
LenStep == 10
\* min_value=0.1 of the length widgets (incoming variant), in hundredths.
MinLen == 10
\* Hundredths per unit: round(v, 2) and the .2f format keep two decimals.
Scale == 100

ForceTyped == (-MaxForce)..MaxForce
LenTyped == {LenStep * k : k \in (-MaxLenSteps)..MaxLenSteps}

\* ------------------------------------------------ exact rational numbers
Abs(i) == IF i < 0 THEN -i ELSE i

RECURSIVE GCD(_, _)
GCD(a, b) == IF b = 0 THEN a ELSE GCD(b, a % b)

\* The rational n/d (d # 0) in lowest terms with a positive denominator.
Rat(n, d) ==
    LET s == IF d < 0 THEN -1 ELSE 1
        g == GCD(Abs(n), Abs(d))
    IN  [n |-> (s * n) \div g, d |-> (s * d) \div g]

\* A two-decimal number, given in hundredths, as a rational.
FromCents(h) == Rat(h, Scale)

RNeg(x) == [n |-> -x.n, d |-> x.d]
RMul(x, y) == Rat(x.n * y.n, x.d * y.d)
\* x / y for y # 0; Python raises ZeroDivisionError for y = 0 (see DivisionRaises).
RDiv(x, y) == Rat(x.n * y.d, x.d * y.n)
RAdd(x, y) ==
    LET g == GCD(x.d, y.d)
        l == (x.d \div g) * y.d
    IN  Rat(x.n * (l \div x.d) + y.n * (l \div y.d), l)
RSub(x, y) == RAdd(x, RNeg(y))
RZero == [n |-> 0, d |-> 1]
RAbs(x) == [n |-> Abs(x.n), d |-> x.d]
RLess(x, y) == x.n * y.d < y.n * x.d

\* round(v, 2): the counts of hundredths the call can give: the nearest one,
\* and at a tie either neighbour.
Round2(x) ==
    LET N == Scale * x.n
        fl == N \div x.d
        rem == N % x.d
    IN  IF 2 * rem < x.d THEN {fl}
        ELSE IF 2 * rem > x.d THEN {fl + 1}
        ELSE {fl, fl + 1}

\* f"{v:.2f}": the texts of v with two decimals, each held as its count of
\* hundredths.
Format2(x) == Round2(x)

\* ------------------------------------------------------- polynomials in x
\* A sympy expression in x is held as its coefficients <<c0, c1, ...>>.
Coef(p, i) == IF i + 1 <= Len(p) THEN p[i + 1] ELSE RZero

RECURSIVE PolyEvalFrom(_, _, _)
PolyEvalFrom(p, x, i) ==
    IF i > Len(p) THEN RZero ELSE RAdd(p[i], RMul(x, PolyEvalFrom(p, x, i + 1)))
\* expr.subs(x, v)
PolyEval(p, x) == PolyEvalFrom(p, x, 1)

\* A mutant of PolyIntegrate: the power rule without the division by the new exponent.
PolyIntegrate_NoDivision(p) ==
    <<RZero>> \o p

\* sp.integrate(p, (x, 0, x)): the antiderivative F with F(x) - F(0).
PolyIntegrate(p) ==
    LET F == <<RZero>> \o [i \in 1..Len(p) |-> RDiv(p[i], Rat(i, 1))]
    IN  [F EXCEPT ![1] = RSub(F[1], PolyEval(F, RZero))]

\* sp.expand(p): the sum of monomials, which the coefficient list already is.
PolyExpand(p) == p

RECURSIVE LowZeros(_, _)
LowZeros(p, i) ==
    IF i > Len(p) THEN 0
    ELSE IF p[i] # RZero THEN 0 ELSE 1 + LowZeros(p, i + 1)

RECURSIVE MaxNorm(_, _)
MaxNorm(p, i) ==
    IF i > Len(p) THEN RZero
    ELSE LET m == MaxNorm(p, i + 1)
         IN  IF RLess(m, RAbs(p[i])) THEN RAbs(p[i]) ELSE m

\* sp.factor(p): coeff * x^xpow * cofactor, the cofactor having no factor x
\* and largest coefficient 1 (0 factors as 0).
PolyFactor(p) ==
    LET k == LowZeros(p, 1)
    IN  IF k = Len(p)
        THEN [coeff |-> RZero, xpow |-> 0, cofactor |-> <<RZero>>]
        ELSE LET q == SubSeq(p, k + 1, Len(p))
                 c == MaxNorm(q, 1)
             IN  [coeff |-> c, xpow |-> k,
                  cofactor |-> [i \in 1..Len(q) |-> RDiv(q[i], c)]]

\* The polynomial a factored expression denotes (its product multiplied out).
PolyOfFactored(f) ==
    [i \in 1..(f.xpow + Len(f.cofactor)) |->
        IF i <= f.xpow THEN RZero ELSE RMul(f.coeff, f.cofactor[i - f.xpow])]

\* --------------------------------------------------- resolver_estrutura
\* The arguments a = [Ha, Hd, Pbc, L_bc, h_cd] are counts of hundredths.

\* A mutant of Hc: the sign variant Hc = -Ha - Hd.
Hc_NegatedHa(a) == RSub(RNeg(FromCents(a.Ha)), FromCents(a.Hd))

\* 1. horizontal equilibrium
Hc(a) == RSub(FromCents(a.Ha), FromCents(a.Hd))

\* A mutant of Vb_Vc: the sign of the total load is lost.
Vb_Vc_Unsigned(a) == RMul(FromCents(a.Pbc), FromCents(a.L_bc))

\* 2. vertical equilibrium
Vb_Vc(a) == RMul(RNeg(FromCents(a.Pbc)), FromCents(a.L_bc))

\* A mutant of DivisionRaises: the divisor is taken to be either length.
DivisionRaises_EitherLength(a) == a.L_bc = 0 \/ a.h_cd = 0

\* The division by L_bc in the moment equation raises ZeroDivisionError.
DivisionRaises(a) == a.L_bc = 0

\* A mutant of Vb: the whole numerator is divided by L_bc.
Vb_WholeNumerator(a) ==
    RDiv(RSub(RDiv(RMul(RNeg(FromCents(a.Pbc)), FromCents(a.L_bc)), Rat(2, 1)),
              RMul(FromCents(a.Hd), FromCents(a.h_cd))),
         FromCents(a.L_bc))

\* 3. moment equilibrium about C (a.L_bc # 0)
Vb(a) ==
    RSub(RDiv(RMul(RNeg(FromCents(a.Pbc)), FromCents(a.L_bc)), Rat(2, 1)),
         RDiv(RMul(FromCents(a.Hd), FromCents(a.h_cd)), FromCents(a.L_bc)))

\* A mutant of Vc: the reaction at B is added instead of subtracted.
Vc_Added(a) == RAdd(Vb_Vc(a), Vb(a))

Vc(a) == RSub(Vb_Vc(a), Vb(a))

\* 4. axial force
N(a) == FromCents(a.Ha)

\* A mutant of V_expr: the shear is built on the rounded reaction.
V_expr_Rounded(a) ==
    <<FromCents(CHOOSE v \in Round2(Vb(a)) : TRUE), FromCents(a.Pbc)>>

\* 5. V(x) = Vb + Pbc * x
V_expr(a) == <<Vb(a), FromCents(a.Pbc)>>

M_integrated(a) == PolyIntegrate(V_expr(a))
M_expanded(a) == PolyExpand(M_integrated(a))
M_factored(a) == PolyFactor(M_integrated(a))

\* The locals of a call that reaches the return statement.
Locals(a) ==
    [Hc |-> Hc(a), Vb_Vc |-> Vb_Vc(a), Vb |-> Vb(a), Vc |-> Vc(a), N |-> N(a)]

\* The locals bound when the division raises: lines before it have run.
LocalsAtRaise(a) == [Hc |-> Hc(a), Vb_Vc |-> Vb_Vc(a)]

\* The outcomes of resolver_estrutura(Ha, Hd, Pbc, L_bc, h_cd): the raised
\* exception, or the returned tuples (more than one only at a rounding tie).
resolver_estrutura(a) ==
    IF DivisionRaises(a)
    THEN {[kind |-> "raise", exc |-> "ZeroDivisionError"]}
    ELSE {[kind |-> "return",
           Hc |-> hc, Vb |-> vb, Vc |-> vc, N |-> n,
           V_expr |-> V_expr(a),
           M_factored |-> M_factored(a),
           M_expanded |-> M_expanded(a)] :
            hc \in Round2(Hc(a)), vb \in Round2(Vb(a)),
            vc \in Round2(Vc(a)), n \in Round2(N(a))}

\* ------------------------------------------------------ the input values
Ha_Values == {Default_Ha} \cup ForceTyped
Hd_Values == {Default_Hd} \cup ForceTyped
Pbc_Values == {Default_Pbc} \cup ForceTyped
L_bc_Values == {Default_L_bc} \cup LenTyped
h_cd_Values == {Default_h_cd} \cup LenTyped

Defaults ==
    [Ha |-> Default_Ha, Hd |-> Default_Hd, Pbc |-> Default_Pbc,
     L_bc |-> Default_L_bc, h_cd |-> Default_h_cd]

None == [kind |-> "none"]

\* ------------------------------------- a call of the solver on any inputs
AppOff ==
    /\ side = "incoming" /\ app_pc = "off" /\ widgets = Defaults
    /\ error_shown = FALSE /\ calls = <<>> /\ solved = None
    /\ equations = None /\ metrics = None /\ failure = "none"

Init ==
    /\ pc = "call"
    /\ args \in [Ha : Ha_Values, Hd : Hd_Values, Pbc : Pbc_Values,
                 L_bc : L_bc_Values, h_cd : h_cd_Values]
    /\ frame = None
    /\ ret = None
    /\ AppOff

Call ==
    /\ pc = "call"
    /\ ret' \in resolver_estrutura(args)
    /\ frame' = IF DivisionRaises(args) THEN LocalsAtRaise(args) ELSE Locals(args)
    /\ pc' = IF ret'.kind = "raise" THEN "raised" ELSE "returned"
    /\ UNCHANGED <<args, app_vars>>

Next == Call

Spec == Init /\ [][Next]_vars

\* ------------------------------------------------- properties of the solver
\* The reactions written out in integer arithmetic on the hundredths of the
\* arguments, for a call that has ended.
TotalLoad == Rat(-(args.Pbc * args.L_bc), Scale * Scale)
OffsetTermOnly ==
    Rat(-(args.Pbc * args.L_bc * args.L_bc) - 2 * Scale * args.Hd * args.h_cd,
        2 * Scale * Scale * args.L_bc)
WholeNumerator ==
    Rat(-(args.Pbc * args.L_bc) - 2 * args.Hd * args.h_cd, 2 * Scale * args.L_bc)
\* v is x rounded to two decimals: v hundredths lie within half a hundredth of x.
IsRounded(v, x) == 2 * Abs(Scale * x.n - v * x.d) <= x.d

\* C1 (as claimed): a call with L_bc = 0 ends in an InvalidGeometry error
\* raised by an explicit check, never in another error and never in a result.
C1_ZeroLengthIsInvalidGeometry ==
    (pc # "call" /\ args.L_bc = 0) =>
        (pc = "raised" /\ ret.kind = "raise" /\ ret.exc = "InvalidGeometry")

C3_RoundedSumIsRoundedLoad ==
    pc = "returned" =>
        \E r \in resolver_estrutura(args) : r.Vb + r.Vc \in Round2(TotalLoad)

\* C3 (amended): the unrounded reactions sum to -Pbc * L_bc exactly; the
\* returned ones, each rounded on its own, sum to round(-Pbc * L_bc, 2) give
\* or take one hundredth.
C3_SumWithinOneHundredth ==
    pc = "returned" =>
        /\ RAdd(frame.Vb, frame.Vc) = TotalLoad
        /\ IsRounded(ret.Vb, frame.Vb)
        /\ IsRounded(ret.Vc, frame.Vc)
        /\ \A s \in Round2(TotalLoad) : Abs(ret.Vb + ret.Vc - s) <= 1

\* C3 witness: a call has returned reactions whose sum is off by a hundredth
\* however the ties fall.
C3_Witness ==
    /\ pc = "returned"
    /\ \A r \in resolver_estrutura(args) :
         \A s \in Round2(TotalLoad) : Abs(r.Vb + r.Vc - s) = 1

\* C4 (as claimed): V(0) is the returned Vb and V(L_bc) is the returned Vb
\* plus Pbc * L_bc.
C4_ShearStartsAtReturnedVb ==
    pc = "returned" =>
        /\ PolyEval(ret.V_expr, RZero) = FromCents(ret.Vb)
        /\ PolyEval(ret.V_expr, FromCents(args.L_bc))
             = RAdd(FromCents(ret.Vb), RNeg(TotalLoad))

\* C4 (amended): V(0) is the unrounded Vb, of which the returned Vb is the
\* rounding to two decimals, and V(L_bc) = V(0) + Pbc * L_bc exactly.
C4_ShearStartsAtUnroundedVb ==
    pc = "returned" =>
        /\ PolyEval(ret.V_expr, RZero) = OffsetTermOnly
        /\ IsRounded(ret.Vb, PolyEval(ret.V_expr, RZero))
        /\ PolyEval(ret.V_expr, FromCents(args.L_bc))
             = RAdd(PolyEval(ret.V_expr, RZero), RNeg(TotalLoad))

\* C4 witness: a call has returned a shear whose start is not a two-decimal
\* number, under a non-zero load.
C4_Witness ==
    /\ pc = "returned"
    /\ args.Pbc # 0
    /\ PolyEval(ret.V_expr, RZero) # FromCents(ret.Vb)

\* C5: for L_bc # 0 the returned Hc is Ha - Hd to two decimals, whatever
\* Pbc, L_bc and h_cd are.
C5_HcIsHaMinusHd ==
    (pc # "call" /\ args.L_bc # 0) =>
        (pc = "returned" /\ ret.Hc = args.Ha - args.Hd)

\* C5 witness: a call with non-default load and lengths returned a non-zero Hc.
C5_Witness ==
    /\ pc = "returned"
    /\ args.Ha # 0 /\ args.Hd # 0 /\ ret.Hc # 0
    /\ args.Pbc > 0 /\ args.L_bc < 0 /\ args.h_cd < 0

\* The properties C6 asks of a moment polynomial M against the shear V.
IsIntegralFromZero(M, V) ==
    /\ Len(M) <= 3
    /\ Coef(M, 0) = RZero
    /\ Coef(M, 1) = Coef(V, 0)
    /\ RMul(Rat(2, 1), Coef(M, 2)) = Coef(V, 1)

\* C6: both returned forms of M(x) have M(0) = 0 and derivative V(x),
\* coefficient by coefficient.
C6_MomentIsIntegralOfShear ==
    pc = "returned" =>
        /\ IsIntegralFromZero(ret.M_expanded, ret.V_expr)
        /\ IsIntegralFromZero(PolyOfFactored(ret.M_factored), ret.V_expr)

\* C6 witness: a call returned a shear with both coefficients non-zero and a
\* moment that factors as x times a linear term.
C6_Witness ==
    /\ pc = "returned"
    /\ Coef(ret.V_expr, 0) # RZero /\ Coef(ret.V_expr, 1) # RZero
    /\ ret.M_factored.xpow = 1 /\ Len(ret.M_factored.cofactor) = 2

\* C7: the reference input gives Vb = 2.0, Vc = 4.0, Hc = -2.0, N = 1.0.
C7_ReferenceScenario ==
    (pc # "call" /\ args = [Ha |-> 100, Hd |-> 300, Pbc |-> -200,
                            L_bc |-> 300, h_cd |-> 100]) =>
        /\ pc = "returned"
        /\ ret.Vb = 200 /\ ret.Vc = 400 /\ ret.Hc = -200 /\ ret.N = 100

\* C7 witness: the call on the reference input has returned.
C7_Witness ==
    /\ pc = "returned"
    /\ args.Ha = 100 /\ args.Hd = 300 /\ args.Pbc = -200
    /\ args.L_bc = 300 /\ args.h_cd = 100

IsPoly(p) == Len(p) >= 1 /\ \A i \in 1..Len(p) : p[i].n \in Int /\ p[i].d > 0

\* C8: L_bc = 0 is the only failure: every call with L_bc # 0 returns the
\* four reactions and the V and M expressions.
C8_OnlyZeroLengthFails ==
    /\ pc = "raised" => args.L_bc = 0
    /\ (pc # "call" /\ args.L_bc # 0) =>
        /\ pc = "returned"
        /\ DOMAIN ret = {"kind", "Hc", "Vb", "Vc", "N",
                         "V_expr", "M_factored", "M_expanded"}
        /\ ret.kind = "return"
        /\ {ret.Hc, ret.Vb, ret.Vc, ret.N} \subseteq Int
        /\ IsPoly(ret.V_expr) /\ IsPoly(ret.M_expanded)
        /\ IsPoly(PolyOfFactored(ret.M_factored))

\* C8 witness: a call with zero forces, a negative load and negative lengths
\* has returned.
C8_Witness ==
    /\ pc = "returned"
    /\ args.Ha = 0 /\ args.Hd = 0 /\ args.Pbc < 0
    /\ args.L_bc < 0 /\ args.h_cd < 0

\* -------------------------------------------- plot_estrutura_e_equacoes
\* The outcomes of the function for the solver outcome r of its first
\* statement: the solver's exception, or the numbers formatted into the
\* equation transcript.
PlotWith(w, r) ==
    IF r.kind = "raise" THEN {r}
    ELSE {[kind |-> "return",
           solved |-> r,
           eq_text |->
             [kind |-> "text",
              Hc_val |-> hc, sum_V_val |-> sum, Vb_val |-> vb, N_val |-> n]] :
            hc \in Format2(FromCents(r.Hc)),
            sum \in Format2(RMul(RNeg(FromCents(w.Pbc)), FromCents(w.L_bc))),
            vb \in Format2(FromCents(r.Vb)),
            n \in Format2(FromCents(r.N))}

plot_estrutura_e_equacoes(w) ==
    UNION {PlotWith(w, r) : r \in resolver_estrutura(w)}

\* ------------------------------------------------ the Streamlit main flow
\* The values a widget accepts: the length widgets of the incoming variant
\* have min_value=0.1, the widgets of the HEAD variant have no minimum.
WidgetValues(s, name) ==
    CASE name = "Ha" -> Ha_Values
      [] name = "Hd" -> Hd_Values
      [] name = "Pbc" -> Pbc_Values
      [] name = "L_bc" ->
            IF s = "incoming" THEN {v \in L_bc_Values : v >= MinLen}
            ELSE L_bc_Values
      [] name = "h_cd" ->
            IF s = "incoming" THEN {v \in h_cd_Values : v >= MinLen}
            ELSE h_cd_Values

SolverIdle ==
    pc = "idle" /\ args = Defaults /\ frame = None /\ ret = None

\* The first run of the script: every widget holds its value= default.
AppInit ==
    /\ side \in {"HEAD", "incoming"}
    /\ app_pc = "main"
    /\ widgets = Defaults
    /\ error_shown = FALSE
    /\ calls = <<>>
    /\ solved = None
    /\ equations = None
    /\ metrics = None
    /\ failure = "none"
    /\ SolverIdle

\* The plot step: the HEAD variant shows an error for L_bc == 0 and plots
\* otherwise, the incoming variant plots unconditionally.
MainFlow ==
    /\ app_pc = "main"
    /\ IF side = "HEAD" /\ widgets.L_bc = 0
       THEN /\ error_shown' = TRUE
            /\ app_pc' = "summary"
            /\ UNCHANGED <<calls, solved, equations, failure>>
       ELSE \E fig \in plot_estrutura_e_equacoes(widgets) :
                /\ calls' = Append(calls, [caller |-> "plot", L_bc |-> widgets.L_bc])
                /\ IF fig.kind = "raise"
                   THEN /\ failure' = fig.exc
                        /\ app_pc' = "failed"
                        /\ UNCHANGED <<solved, equations>>
                   ELSE /\ solved' = fig.solved
                        /\ equations' = fig.eq_text
                        /\ app_pc' = "summary"
                        /\ UNCHANGED failure
                /\ UNCHANGED error_shown
    /\ UNCHANGED <<side, widgets, metrics, solver_vars>>

\* The result summary: the solver is called again and its reactions shown.
ResultSummary ==
    /\ app_pc = "summary"
    /\ \E r \in resolver_estrutura(widgets) :
           /\ calls' = Append(calls, [caller |-> "summary", L_bc |-> widgets.L_bc])
           /\ IF r.kind = "raise"
              THEN /\ failure' = r.exc
                   /\ app_pc' = "failed"
                   /\ UNCHANGED metrics
              ELSE /\ metrics' \in
                        {[kind |-> "metrics", Hc |-> hc, Vb |-> vb, Vc |-> vc, N |-> n] :
                            hc \in Format2(FromCents(r.Hc)),
                            vb \in Format2(FromCents(r.Vb)),
                            vc \in Format2(FromCents(r.Vc)),
                            n \in Format2(FromCents(r.N))}
                   /\ app_pc' = "done"
                   /\ UNCHANGED failure
    /\ UNCHANGED <<side, widgets, error_shown, solved, equations, solver_vars>>

\* The user changes one widget: Streamlit runs the script again from the top.
UserInput ==
    /\ app_pc \in {"done", "failed"}
    /\ \E name \in {"Ha", "Hd", "Pbc", "L_bc", "h_cd"} :
         \E v \in WidgetValues(side, name) :
            /\ v # widgets[name]
            /\ widgets' = [widgets EXCEPT ![name] = v]
    /\ app_pc' = "main"
    /\ error_shown' = FALSE
    /\ calls' = <<>>
    /\ solved' = None
    /\ equations' = None
    /\ metrics' = None
    /\ failure' = "none"
    /\ UNCHANGED <<side, solver_vars>>

AppNext == MainFlow \/ ResultSummary \/ UserInput

AppSpec == AppInit /\ [][AppNext]_vars

\* --------------------------------------------- properties of the main flow
\* C9 (as claimed): every value of the equation transcript is the solver's
\* returned reaction, so the displayed Vb + Vc is the sum of the returned
\* Vb and Vc.  Where a value sits at a rounding tie the claim is given the
\* benefit of the doubt: it stands if some way for the ties to fall
\* satisfies it.
C9_TranscriptShowsSolverOutput ==
    equations.kind = "text" =>
        \E fig \in plot_estrutura_e_equacoes(widgets) :
            /\ fig.kind = "return"
            /\ fig.eq_text.Hc_val = fig.solved.Hc
            /\ fig.eq_text.Vb_val = fig.solved.Vb
            /\ fig.eq_text.N_val = fig.solved.N
            /\ fig.eq_text.sum_V_val = fig.solved.Vb + fig.solved.Vc

=============================================================================
